---- MODULE Spec2Model ----
(***************************************************************************)
(* Streaming execution client of computer-agents-sdk:                      *)
(*   ApiClient.request          (src/src/cloud/types.ts)                   *)
(*   ThreadsResource.sendMessage (src/unnamed/part_010)                    *)
(*   ComputerAgentsClient.run   (src/src/ComputerAgentsClient.ts)          *)
(* Spec: one sendMessage call (or one buffered request), from the arming   *)
(* of the deadline timer to the value it returns or the error it throws.   *)
(* SpecRun: NCalls concurrent run() calls on one client and its server.    *)
(* An action is the code that runs between two awaits (JavaScript runs it  *)
(* to completion).                                                         *)
(***************************************************************************)
EXTENDS Integers, Sequences, FiniteSets, TLC

\* ------------------------------------------------------------------ bounds
\* largest number of lines in a response body
MaxLines == 2
\* the clock runs from 0 to MaxTime
MaxTime == 2
\* The requests in flight at the same time.
NFlights == 2
\* number of run() calls made on one client
NCalls == 3

\* ------------------------------------------------------- program constants
\* sendMessage: const { onEvent, timeout = 600000, ...params } = options
DefaultSendTimeout == 600000
\* ApiClient constructor: this.timeout = config.timeout ?? 60000
DefaultClientTimeout == 60000
\* line.slice(6): the length of the marker 'data: '
MarkerLen == 6

Undefined == "undefined"

\* ------------------------------------------------------------- text, bytes
\* A string is a sequence of one-character strings; a chunk is a sequence of
\* bytes (numbers), as delivered by reader.read().
NL == "\n"
Marker == <<"d", "a", "t", "a", ":", " ">>

\* The characters of the modelled bodies that are one byte in UTF-8.
AsciiCode ==
  [c \in {NL, " ", ":", "A", "a", "d", "e", "n", "r", "t", "u", "v", "{", "}"} |->
     CASE c = NL  -> 10
       [] c = " " -> 32
       [] c = ":" -> 58
       [] c = "A" -> 65
       [] c = "a" -> 97
       [] c = "d" -> 100
       [] c = "e" -> 101
       [] c = "n" -> 110
       [] c = "r" -> 114
       [] c = "t" -> 116
       [] c = "u" -> 117
       [] c = "v" -> 118
       [] c = "{" -> 123
       [] c = "}" -> 125]

\* U+00E9 is the two bytes C3 A9; U+FFFD is what TextDecoder emits for a
\* malformed sequence.
EAcute == "U+00E9"
Replacement == "U+FFFD"
Utf8EAcute == <<195, 169>>
LeadByte == Utf8EAcute[1]
ContByte == Utf8EAcute[2]

\* The server's UTF-8 encoding of one character, of a string.
EncodeChar(c) == IF c = EAcute THEN Utf8EAcute ELSE <<AsciiCode[c]>>

RECURSIVE Encode(_)
Encode(s) == IF s = <<>> THEN <<>> ELSE EncodeChar(Head(s)) \o Encode(Tail(s))

CharOfByte(b) == CHOOSE c \in DOMAIN AsciiCode : AsciiCode[c] = b

\* decoder.decode(value, { stream: true }): the decoder keeps an incomplete
\* multi-byte sequence (here: a lead byte) for the next call. `pending` is
\* that kept part; the result is the decoded text and the new kept part.
RECURSIVE DecodeBytes(_, _)
DecodeBytes(pending, bytes) ==
  IF bytes = <<>> THEN [text |-> <<>>, pending |-> pending]
  ELSE LET b == Head(bytes) IN
    IF pending # <<>> THEN
      IF b = ContByte
        THEN LET r == DecodeBytes(<<>>, Tail(bytes)) IN
             [text |-> <<EAcute>> \o r.text, pending |-> r.pending]
        ELSE LET r == DecodeBytes(<<>>, bytes) IN
             [text |-> <<Replacement>> \o r.text, pending |-> r.pending]
    ELSE IF b = LeadByte THEN DecodeBytes(<<b>>, Tail(bytes))
    ELSE IF b = ContByte
      THEN LET r == DecodeBytes(<<>>, Tail(bytes)) IN
           [text |-> <<Replacement>> \o r.text, pending |-> r.pending]
    ELSE LET r == DecodeBytes(<<>>, Tail(bytes)) IN
         [text |-> <<CharOfByte(b)>> \o r.text, pending |-> r.pending]

\* decoder.decode(value) without { stream: true }: an incomplete sequence at
\* the end of the chunk is replaced at once and nothing is kept.
DecodeNoStream(pending, bytes) ==
  LET r == DecodeBytes(<<>>, bytes) IN
  [text |-> IF r.pending = <<>> THEN r.text ELSE r.text \o <<Replacement>>,
   pending |-> <<>>]

TextDecoderDecode(pending, bytes) == DecodeBytes(pending, bytes)

\* buffer.split('\n'): the segments between newlines; n newlines give n + 1
\* segments, the last one being the text after the last newline.
RECURSIVE Split(_)
Split(s) ==
  IF \A i \in 1..Len(s) : s[i] # NL THEN <<s>>
  ELSE LET i == CHOOSE j \in 1..Len(s) :
                  s[j] = NL /\ \A k \in 1..(j - 1) : s[k] # NL
       IN <<SubSeq(s, 1, i - 1)>> \o Split(SubSeq(s, i + 1, Len(s)))

\* A test that finds the marker at the start of every line.
StartsWithAnything(s, p) == TRUE

\* line.startsWith('data: ')
StartsWith(line, prefix) ==
  Len(line) >= Len(prefix) /\ SubSeq(line, 1, Len(prefix)) = prefix

\* line.slice(n)
Slice(line, n) == SubSeq(line, n + 1, Len(line))

\* String.prototype.trim and the whitespace JSON.parse skips
IsSpace(c) == c \in {" ", "\r", "\t", NL}

RECURSIVE TrimLeft(_)
TrimLeft(s) == IF s # <<>> /\ IsSpace(Head(s)) THEN TrimLeft(Tail(s)) ELSE s

RECURSIVE TrimRight(_)
TrimRight(s) ==
  IF s # <<>> /\ IsSpace(s[Len(s)]) THEN TrimRight(SubSeq(s, 1, Len(s) - 1)) ELSE s

Trim(s) == TrimRight(TrimLeft(s))

\* ------------------------------------------------------------------ events
\* A MessageStreamEvent as the fields sendMessage reads: type,
\* response.content, run, message.
Event(type, content, run, message) ==
  [type |-> type, content |-> content, run |-> run, message |-> message]

\* In the modelled bodies a JSON object is written `{` tag `}`; the tag stands
\* for the member list of the object.
EventOfTag ==
  [g \in {"A", EAcute, "r", "e", "u"} |->
     CASE g = "A"    -> Event("response.completed", "A", Undefined, Undefined)
       [] g = EAcute -> Event("response.completed", EAcute, Undefined, Undefined)
       [] g = "r"    -> Event("stream.completed", Undefined, "run_1", Undefined)
       [] g = "e"    -> Event("stream.error", Undefined, Undefined, "boom")
       [] g = "u"    -> Event("custom.event", Undefined, Undefined, Undefined)]

\* JSON.parse(payload): surrounding whitespace is skipped; anything that is
\* not one complete JSON value is a SyntaxError (the empty string included).
JSONParse(payload) ==
  LET s == Trim(payload) IN
  IF Len(s) = 3 /\ s[1] = "{" /\ s[3] = "}" /\ s[2] \in DOMAIN EventOfTag
    THEN [ok |-> TRUE, value |-> EventOfTag[s[2]]]
    ELSE [ok |-> FALSE, value |-> Undefined]

\* ------------------------------------------------------------------ errors
Err(kind, message, status, code) ==
  [kind |-> kind, message |-> message, status |-> status, code |-> code]

NoError == Err("none", "", Undefined, Undefined)

\* new ApiClientError(message, status, code)
ApiClientError(message, status, code) == Err("ApiClientError", message, status, code)

\* new Error(message), and the exceptions of the runtime: no status, no code
BareError(kind, message) == Err(kind, message, Undefined, Undefined)

\* ------------------------------------------------------- the decode loop
\* The observer a caller passes as options.onEvent: none, one that returns,
\* one that throws.
Observers == {Undefined, "returns", "throws"}

\* The classification without the test of the type before the content is
\* taken: every event sets finalContent.
ClassifyEveryEvent(st, data) ==
  IF data.type = "stream.completed"
    THEN [st EXCEPT !.runDetails = data.run]
  ELSE IF data.type = "stream.error"
    THEN [st EXCEPT !.thrown = BareError("Error", data.message)]
  ELSE [st EXCEPT !.finalContent =
                    IF data.content = Undefined THEN "" ELSE data.content]

\* if (data.type === 'response.completed') ... else if ... else if ...
Classify(st, data) ==
  IF data.type = "response.completed"
    THEN [st EXCEPT !.finalContent =
                      IF data.content = Undefined THEN "" ELSE data.content]
  ELSE IF data.type = "stream.completed"
    THEN [st EXCEPT !.runDetails = data.run]
  ELSE IF data.type = "stream.error"
    THEN [st EXCEPT !.thrown = BareError("Error", data.message)]
  ELSE st

\* The try block with the observer call put off instead of made at once:
\* the event is pushed and classified, the call is not yet in the trace.
TryBodyObserverDeferred(st, line, onEvent) ==
  LET p == JSONParse(Slice(line, MarkerLen)) IN
  IF ~p.ok THEN [st EXCEPT !.thrown = BareError("SyntaxError", "Unexpected token")]
  ELSE Classify([st EXCEPT !.events = Append(@, p.value),
                           !.trace = Append(@, [op |-> "push", ev |-> p.value])],
                p.value)

\* The body of the try block: parse, push, call the observer, classify.
\* st.thrown is the exception that leaves the block, if any.
TryBody(st, line, onEvent) ==
  LET p == JSONParse(Slice(line, MarkerLen)) IN
  IF ~p.ok THEN [st EXCEPT !.thrown = BareError("SyntaxError", "Unexpected token")]
  ELSE
    LET data == p.value
        s1 == [st EXCEPT !.events = Append(@, data),
                         !.trace = Append(@, [op |-> "push", ev |-> data])]
        s2 == [s1 EXCEPT !.trace = Append(@, [op |-> "onEvent", ev |-> data])]
    IN IF onEvent = Undefined THEN Classify(s1, data)
       ELSE IF onEvent = "throws"
         THEN [s2 EXCEPT !.thrown = BareError("Error", "observer failed")]
       ELSE Classify(s2, data)

\* A catch block that warns and throws the exception on.
CatchRethrows(st, line) ==
  [st EXCEPT !.warned = IF Trim(Slice(line, MarkerLen)) # <<>> THEN @ + 1 ELSE @]

\* catch (parseError) { if (line.slice(6).trim()) console.warn(...) }
\* Whatever was thrown in the try block ends here.
CatchBlock(st, line) ==
  [st EXCEPT !.thrown = NoError,
             !.warned = IF Trim(Slice(line, MarkerLen)) # <<>> THEN @ + 1 ELSE @]

\* One iteration of `for (const line of lines)`.
ProcessLine(st, line, onEvent) ==
  IF StartsWith(line, Marker)
    THEN LET r == TryBody(st, line, onEvent) IN
         IF r.thrown # NoError THEN CatchBlock(r, line) ELSE r
    ELSE st

\* for (const line of lines) { ... }: an exception that leaves an iteration
\* ends the loop. `seen` records the lines the loop was entered with.
RECURSIVE ProcessLines(_, _, _)
ProcessLines(st, lines, onEvent) ==
  IF lines = <<>> \/ st.thrown # NoError THEN st
  ELSE LET st1 == [st EXCEPT !.seen = Append(@, Head(lines))] IN
       ProcessLines(ProcessLine(st1, Head(lines), onEvent), Tail(lines), onEvent)

\* A loop that forgets the text after the last newline.
PopOrEmptyDropped(lines) == <<>>

\* lines.pop() || ''
PopOrEmpty(lines) == IF lines = <<>> THEN <<>> ELSE lines[Len(lines)]

\* A loop that processes every segment of the split, the last one too.
PoppedKeepsLast(lines) == lines

\* The lines left in `lines` after lines.pop()
Popped(lines) == IF lines = <<>> THEN <<>> ELSE SubSeq(lines, 1, Len(lines) - 1)

\* The body of the while loop for one chunk: decode, append, split, keep the
\* last segment, process the others.
ProcessChunk(st, value, onEvent) ==
  LET d == TextDecoderDecode(st.pending, value)
      lines == Split(st.buffer \o d.text)
      s1 == [st EXCEPT !.pending = d.pending, !.buffer = PopOrEmpty(lines)]
  IN ProcessLines(s1, Popped(lines), onEvent)

\* The locals with `let finalContent;` in place of `let finalContent = ''`.
InitialLocalsNoContent ==
  [events |-> <<>>, finalContent |-> Undefined, runDetails |-> Undefined,
   buffer |-> <<>>, pending |-> <<>>, trace |-> <<>>, seen |-> <<>>,
   warned |-> 0, thrown |-> NoError]

\* The locals of sendMessage before the first read.
InitialLocals ==
  [events |-> <<>>, finalContent |-> "", runDetails |-> Undefined,
   buffer |-> <<>>, pending |-> <<>>, trace |-> <<>>, seen |-> <<>>,
   warned |-> 0, thrown |-> NoError]

\* ------------------------------------------------------------- ApiClient
\* An optional number is <<>> (undefined) or <<n>>.
NoTimeout == <<>>

\* sendMessage: const { onEvent, timeout = 600000, ...params } = options
SendTimeout(optTimeout) ==
  IF optTimeout = NoTimeout THEN DefaultSendTimeout ELSE optTimeout[1]

\* ApiClient constructor: this.timeout = config.timeout ?? 60000
ClientTimeout(config) ==
  IF config = NoTimeout THEN DefaultClientTimeout ELSE config[1]

\* run passes its option on to sendMessage: timeout: options.timeout
ForwardTimeout(optTimeout) == optTimeout

\* A request that arms its timer with the client's timeout only.
RequestTimeoutOfClient(callTimeout, clientTimeout) == clientTimeout

\* request: options.timeout ?? this.timeout
RequestTimeout(callTimeout, clientTimeout) ==
  IF callTimeout = NoTimeout THEN clientTimeout ELSE callTimeout[1]

\* What fetch can resolve with: a status, a body or none, and for an error
\* status a body that is JSON ({message, error, code}) or is not.
Resp(ok, status, hasBody, jsonOk, message, code) ==
  [ok |-> ok, status |-> status, hasBody |-> hasBody, jsonOk |-> jsonOk,
   message |-> message, code |-> code]

NoResponse == Resp(FALSE, "0", FALSE, FALSE, "", Undefined)

\* The responses to a streamed request (the body of a 200 is the event
\* stream) and to a buffered one (the body of a 200 is JSON, or is broken).
StreamResponses ==
  { Resp(TRUE, "200", TRUE, FALSE, "", Undefined),
    Resp(TRUE, "200", FALSE, FALSE, "", Undefined),
    Resp(FALSE, "404", TRUE, TRUE, "Thread not found", "NOT_FOUND"),
    Resp(FALSE, "502", TRUE, FALSE, "", Undefined) }

BufferedResponses ==
  { Resp(TRUE, "200", TRUE, TRUE, "", Undefined),
    Resp(TRUE, "200", TRUE, FALSE, "", Undefined),
    Resp(TRUE, "204", FALSE, FALSE, "", Undefined),
    Resp(FALSE, "404", TRUE, TRUE, "Thread not found", "NOT_FOUND"),
    Resp(FALSE, "502", TRUE, FALSE, "", Undefined) }

\* parseError(response): the error of a non-2xx response, from its JSON body
\* or, when the body is not JSON, from the status line.
ParseError(response) ==
  IF response.jsonOk
    THEN ApiClientError(response.message, response.status, response.code)
    ELSE ApiClientError("HTTP " \o response.status, response.status, Undefined)

\* The catch block without the test for AbortError.
RequestCatchNoAbort(error) ==
  IF error.kind = "ApiClientError" THEN error
  ELSE ApiClientError(error.message, "500", "NETWORK_ERROR")

\* The catch block of request: an ApiClientError is rethrown, an AbortError
\* becomes 408 TIMEOUT, anything else 500 NETWORK_ERROR.
RequestCatch(error) ==
  IF error.kind = "ApiClientError" THEN error
  ELSE IF error.kind = "AbortError"
    THEN ApiClientError("Request timeout", "408", "TIMEOUT")
  ELSE ApiClientError(error.message, "500", "NETWORK_ERROR")

\* -------------------------------------------------------------- the inputs
\* The lines a body is made of (without their newline).
LineSet ==
  { Marker \o <<"{", "A", "}">>,
    Marker \o <<"{", EAcute, "}">>,
    Marker \o <<"{", "r", "}">>,
    Marker \o <<"{", "e", "}">>,
    Marker \o <<"{", "u", "}">>,
    Marker \o <<"{">>,
    <<>> }

\* What may follow the last newline of a body: a frame the server did not
\* terminate.
Tails == { Marker \o <<"{", "A", "}">> }

RECURSIVE LinesUpTo(_)
LinesUpTo(n) ==
  IF n = 0 THEN {<<>>}
  ELSE LET shorter == LinesUpTo(n - 1) IN
       shorter \cup {b \o l \o <<NL>> : b \in shorter, l \in LineSet}

\* The bodies of at most MaxLines lines, the last of which may lack its
\* newline.
Bodies ==
  LinesUpTo(MaxLines) \cup {b \o t : b \in LinesUpTo(MaxLines - 1), t \in Tails}

TimeoutOptions == {NoTimeout, <<1>>}

\* config.timeout of the client: not given, or longer than a per-call one
ConfigTimeouts == {NoTimeout, <<MaxTime>>}

\* ------------------------------------------------------------------- state
VARIABLES
  body,        \* the text the server sends as the response body
  wire,        \* its bytes on the wire
  onEvent,     \* options.onEvent
  timeoutOpt,  \* options.timeout
  configTimeout, \* config.timeout given to the ApiClient constructor
  stream,      \* options.stream of the request: TRUE for sendMessage
  reqState,    \* the call of request: idle, pending, returned, threw
  response,    \* the response fetch resolved with
  pc,          \* where the call is: start, fetch, read, returned, failed
  now,         \* the clock
  timer,       \* the timer of setTimeout: unset, armed, cleared, fired
  deadline,    \* the time the armed timer is due
  aborted,     \* controller.signal.aborted
  reader,      \* the lock on response.body: none, locked, released
  pos,         \* the bytes of the body delivered so far
  loc,         \* the locals of sendMessage
  error,       \* the error thrown to the caller
  result       \* the value returned to the caller

\* What the caller and the server supply: fixed during the call.
\* The state of one ComputerAgentsClient, of the server it talks to and of
\* the run() calls made on it.
VARIABLES
  cache,       \* this._defaultEnvironmentId
  envs,        \* the environments on the server, in the order list returns them
  threads,     \* the threads on the server, in creation order
  calls        \* the run() calls: options, position, locals, requests made

\* The construction of a ComputerAgentsClient.
VARIABLES
  clientConfig, \* the config object given to the constructor
  processEnv,   \* process.env
  construction, \* new: not run yet; constructed; threw
  api,          \* this.api, the ApiClient the constructor made
  ctorMessage   \* the message of the Error the constructor threw

\* Several requests of one ApiClient in flight at the same time.
VARIABLES
  flights      \* per request: its options, timer, signal, reader, locals

input == <<body, wire, onEvent, timeoutOpt, configTimeout, stream>>

ctorVars == <<clientConfig, processEnv, construction, api, ctorMessage>>

pairVars == <<flights>>

client == <<cache, envs, threads, calls>>

vars == <<body, wire, onEvent, timeoutOpt, configTimeout, stream, cache, envs, threads, calls, reqState, response, pc, now, timer, deadline, aborted,
          reader, pos, loc, error, result, clientConfig, processEnv,
          construction, api, ctorMessage, flights>>

Result(content, run, events) == [content |-> content, run |-> run, events |-> events]

NoResult == Result("", Undefined, <<>>)

\* ------------------------------------------------ the client and its server
\* An id is a pair of a kind and a number; an absent id (null, undefined)
\* is the empty tuple.
NoId == <<>>

EnvId(n) == <<"env", n>>

ThreadId(n) == <<"thread", n>>

Calls == 1..NCalls

\* RunOptions: environmentId?, threadId?, timeout?
RunOptionsWith(environmentId, threadId, agentConfig, onEventOpt, timeout) ==
  [environmentId |-> environmentId, threadId |-> threadId,
   agentConfig |-> agentConfig, onEvent |-> onEventOpt, timeout |-> timeout]

\* Options without agentConfig and without onEvent.
RunOptions(environmentId, threadId, timeout) ==
  RunOptionsWith(environmentId, threadId, <<>>, Undefined, timeout)

\* run(task, options = {})
NoOptions == RunOptions(NoId, NoId, NoTimeout)

\* The ids a caller passes: an environment of its own, a thread of an
\* earlier conversation.
GivenEnv == EnvId(0)

GivenThread == ThreadId(0)

Environment(id, name, internetAccess, isDefault) ==
  [id |-> id, name |-> name, internetAccess |-> internetAccess,
   isDefault |-> isDefault]

\* RunResult: { content, threadId, run }
RunResult(content, threadId, run) ==
  [content |-> content, threadId |-> threadId, run |-> run]

NoRunResult == RunResult("", NoId, Undefined)

\* The options object run() passes to threads.sendMessage.
SendMessageOptions(content, agentConfig, onEventOpt, timeout) ==
  [content |-> content, agentConfig |-> agentConfig, onEvent |-> onEventOpt,
   timeout |-> timeout]

NotSent == SendMessageOptions("", <<>>, Undefined, NoTimeout)

\* A run() call that was not made yet. `after` is the set of calls that
\* had returned when this one was made; `made` counts the requests the call
\* made, by kind; `fetches` counts its calls of fetch; `sentTo` is the
\* thread its message went to and `sent` the options it was sent with;
\* `sendError` is what sendMessage threw.
IdleCall ==
  [pc |-> "idle", after |-> {}, task |-> "", options |-> NoOptions,
   environmentId |-> NoId, threadId |-> NoId, sentTo |-> NoId, sent |-> NotSent,
   made |-> [list |-> 0, create |-> 0, thread |-> 0, send |-> 0],
   fetches |-> 0, sendError |-> NoError, error |-> NoError,
   result |-> NoRunResult]

\* private _defaultEnvironmentId: string | null = null, and no call made
FreshClient ==
  /\ cache = NoId
  /\ envs = <<>>
  /\ threads = <<>>
  /\ calls = [c \in Calls |-> IdleCall]

\* ComputerAgentsClientConfig: { apiKey?, timeout?, debug? }
ClientConfig(apiKey, timeout, debug) ==
  [apiKey |-> apiKey, timeout |-> timeout, debug |-> debug]

\* The two variables of process.env the constructor reads.
ProcessEnv(computerAgentsKey, testbaseKey) ==
  [COMPUTER_AGENTS_API_KEY |-> computerAgentsKey, TESTBASE_API_KEY |-> testbaseKey]

\* The fields of an ApiClient; NoApi before one is made.
ApiClientOf(apiKey, timeout, debug) ==
  [apiKey |-> apiKey, timeout |-> timeout, debug |-> debug]

NoApi == ApiClientOf(Undefined, 0, FALSE)

\* No constructor call is looked at.
NoConstruction ==
  /\ clientConfig = ClientConfig(Undefined, NoTimeout, <<>>)
  /\ processEnv = ProcessEnv(Undefined, Undefined)
  /\ construction = "new"
  /\ api = NoApi
  /\ ctorMessage = <<>>

\* One request of an ApiClient and, for a streamed one, the sendMessage
\* call that made it: the same fields as the variables of a single call.
Flight(isStream, bytes, observer) ==
  [stream |-> isStream, wire |-> bytes, onEvent |-> observer,
   reqState |-> "idle", pc |-> "start", timer |-> "unset", aborted |-> FALSE,
   reader |-> "none", pos |-> 0, loc |-> InitialLocals, error |-> NoError,
   result |-> NoResult]

NoFlights == flights = <<>>

Init ==
  /\ NoConstruction
  /\ NoFlights
  /\ stream \in BOOLEAN
  /\ IF stream
       THEN body \in Bodies /\ onEvent \in Observers
       ELSE body = <<>> /\ onEvent = Undefined
  /\ wire = Encode(body)
  /\ timeoutOpt \in TimeoutOptions
  /\ configTimeout \in ConfigTimeouts
  /\ FreshClient
  /\ reqState = "idle"
  /\ response = NoResponse
  /\ pc = "start"
  /\ now = 0
  /\ timer = "unset"
  /\ deadline = 0
  /\ aborted = FALSE
  /\ reader = "none"
  /\ pos = 0
  /\ loc = InitialLocals
  /\ error = NoError
  /\ result = NoResult

\* An exit of request that leaves the timer armed.
ClearTimeoutMissing(t) == t

\* clearTimeout(timeoutId)
ClearTimeout(t) == IF t = "armed" THEN "cleared" ELSE t

\* A finally block that was left out: the lock stays as it is.
FinallyMissing(r) == r

\* finally { reader.releaseLock() }
Finally(r) == "released"

\* The caller's code up to the call of fetch inside request: sendMessage
\* passes its timeout (600000 by default), a buffered call (get, post, ...)
\* passes the caller's; request arms the timer.
Start ==
  /\ pc = "start"
  /\ pc' = "fetch"
  /\ reqState' = "pending"
  /\ timer' = "armed"
  /\ deadline' = now + RequestTimeout(IF stream
                                        THEN <<SendTimeout(ForwardTimeout(timeoutOpt))>>
                                        ELSE timeoutOpt,
                                      ClientTimeout(configTimeout))
  /\ UNCHANGED <<input, client, ctorVars, pairVars, response, now, aborted,
                 reader, pos, loc, error, result>>

\* What request does with the response of a buffered call, after the timer
\* was cleared: throw the error of a non-2xx status, return undefined for
\* 204, return the parsed body; a body that is not JSON makes
\* response.json() throw, which the catch block classifies.
BufferedOutcome(r) ==
  IF ~r.ok THEN RequestCatch(ParseError(r))
  ELSE IF r.status = "204" THEN NoError
  ELSE IF r.jsonOk THEN NoError
  ELSE RequestCatch(BareError("SyntaxError", "Unexpected token"))

\* A request that hands every response to its caller, whatever its status.
StreamOutcomeAnyStatus(r) == NoError

\* What request does with the response of a streamed call: throw the error
\* of a non-2xx status, return the response.
StreamOutcome(r) == IF ~r.ok THEN RequestCatch(ParseError(r)) ELSE NoError

\* fetch resolves with the response headers: request clears the timer and
\* throws or returns. After a streamed request sendMessage takes the reader
\* of the body, or throws when there is no body, and calls read().
FetchResolves ==
  /\ pc = "fetch"
  /\ ~aborted
  /\ \E r \in IF stream THEN StreamResponses ELSE BufferedResponses :
       LET e == IF stream THEN StreamOutcome(r) ELSE BufferedOutcome(r) IN
       /\ response' = r
       /\ timer' = ClearTimeout(timer)
       /\ IF e # NoError
            THEN /\ reqState' = "threw"
                 /\ pc' = "failed"
                 /\ error' = e
                 /\ UNCHANGED <<reader, loc>>
          ELSE IF ~stream
            THEN /\ reqState' = "returned"
                 /\ pc' = "returned"
                 /\ UNCHANGED <<reader, loc, error>>
          ELSE IF ~r.hasBody
            THEN /\ reqState' = "returned"
                 /\ pc' = "failed"
                 /\ error' = BareError("Error", "No response body")
                 /\ UNCHANGED <<reader, loc>>
          ELSE /\ reqState' = "returned"
               /\ pc' = "read"
               /\ reader' = "locked"
               /\ loc' = InitialLocals
               /\ UNCHANGED error
  /\ UNCHANGED <<input, client, ctorVars, pairVars, now, deadline, aborted,
                 pos, result>>

\* fetch rejects: with an AbortError when the signal was aborted, with the
\* transport's error otherwise. The catch block of request classifies it.
FetchRejects ==
  /\ pc = "fetch"
  /\ timer' = ClearTimeout(timer)
  /\ error' = RequestCatch(IF aborted
                             THEN BareError("AbortError", "This operation was aborted")
                             ELSE BareError("TypeError", "fetch failed"))
  /\ reqState' = "threw"
  /\ pc' = "failed"
  /\ UNCHANGED <<input, client, ctorVars, pairVars, response, now, deadline,
                 aborted, reader, pos, loc, result>>

\* The timer callback: () => controller.abort()
TimerFires ==
  /\ timer = "armed"
  /\ now >= deadline
  /\ timer' = "fired"
  /\ aborted' = TRUE
  /\ UNCHANGED <<input, client, ctorVars, pairVars, reqState, response, pc, now,
                 deadline, reader, pos, loc, error, result>>

\* reader.read() resolves with the next k bytes: one pass of the while loop,
\* up to the next call of read(). An exception leaving the loop runs the
\* finally block and is thrown to the caller.
ReadChunk ==
  /\ pc = "read"
  /\ ~aborted
  /\ \E k \in 1..(Len(wire) - pos) :
       LET st == ProcessChunk(loc, SubSeq(wire, pos + 1, pos + k), onEvent) IN
       /\ pos' = pos + k
       /\ IF st.thrown # NoError
            THEN /\ loc' = st
                 /\ reader' = Finally(reader)
                 /\ pc' = "failed"
                 /\ error' = st.thrown
            ELSE /\ loc' = st
                 /\ UNCHANGED <<reader, pc, error>>
  /\ UNCHANGED <<input, client, ctorVars, pairVars, reqState, response, now, timer, deadline, aborted, result>>

\* reader.read() resolves with done: the loop ends, the finally block runs
\* and the result is returned.
ReadDone ==
  /\ pc = "read"
  /\ ~aborted
  /\ pos = Len(wire)
  /\ reader' = Finally(reader)
  /\ pc' = "returned"
  /\ result' = Result(loc.finalContent, loc.runDetails, loc.events)
  /\ UNCHANGED <<input, client, ctorVars, pairVars, reqState, response, now, timer, deadline, aborted, pos,
                 loc, error>>

\* reader.read() rejects (the connection broke, or the request was aborted):
\* the finally block runs and the rejection is thrown to the caller.
ReadFails ==
  /\ pc = "read"
  /\ reader' = Finally(reader)
  /\ pc' = "failed"
  /\ error' = IF aborted
                THEN BareError("AbortError", "This operation was aborted")
                ELSE BareError("TypeError", "terminated")
  /\ UNCHANGED <<input, client, ctorVars, pairVars, reqState, response, now, timer, deadline, aborted, pos,
                 loc, result>>

\* Time passes while the call is pending; a due timer fires before more
\* time passes.
Tick ==
  /\ pc \in {"fetch", "read"}
  /\ now < MaxTime
  /\ timer = "armed" => now < deadline
  /\ now' = now + 1
  /\ UNCHANGED <<input, client, ctorVars, pairVars, reqState, response, pc, timer, deadline, aborted, reader,
                 pos, loc, error, result>>

Next ==
  \/ Start
  \/ FetchResolves
  \/ FetchRejects
  \/ TimerFires
  \/ ReadChunk
  \/ ReadDone
  \/ ReadFails
  \/ Tick

Spec == Init /\ [][Next]_vars

\* --------------------------------------- lines that are not `data: ` frames
\* The lines a server sends between frames, and one frame: a blank
\* keep-alive line, a comment line, an `event:` line, a `data:` line
\* without the space, a `data: ` line without payload, `data: {A}`.
OtherLineSet ==
  { <<>>,
    <<":", " ", "a", "d", "d", " ", "{", "A", "}">>,
    <<"e", "v", "e", "n", "t", ":", "{", "A", "}">>,
    <<"d", "a", "t", "a", ":", "{", "A", "}">>,
    Marker,
    Marker \o <<"{", "A", "}">> }

RECURSIVE OtherLinesUpTo(_)
OtherLinesUpTo(n) ==
  IF n = 0 THEN {<<>>}
  ELSE LET shorter == OtherLinesUpTo(n - 1) IN
       shorter \cup {b \o l \o <<NL>> : b \in shorter, l \in OtherLineSet}

\* A message send whose body is made of these lines.
InitLines ==
  /\ NoConstruction
  /\ NoFlights
  /\ stream = TRUE
  /\ body \in OtherLinesUpTo(MaxLines)
  /\ onEvent \in Observers
  /\ wire = Encode(body)
  /\ timeoutOpt \in TimeoutOptions
  /\ configTimeout = NoTimeout
  /\ FreshClient
  /\ reqState = "idle"
  /\ response = NoResponse
  /\ pc = "start"
  /\ now = 0
  /\ timer = "unset"
  /\ deadline = 0
  /\ aborted = FALSE
  /\ reader = "none"
  /\ pos = 0
  /\ loc = InitialLocals
  /\ error = NoError
  /\ result = NoResult

SpecLines == InitLines /\ [][Next]_vars

\* ------------------------------------------- ComputerAgentsClient.run()
\* Several run() calls on one client. An action is the code of one call
\* between two awaits: from the settling of the request it waits for to the
\* next request it makes, or to its end.

\* The environments a server holds before the first call: none, or three
\* of which the second and the third are flagged default.
ServerEnvs ==
  { <<>>,
    << Environment(EnvId(1), "scratch", FALSE, FALSE),
       Environment(EnvId(2), "main", TRUE, TRUE),
       Environment(EnvId(3), "other", TRUE, TRUE) >> }

\* The options of a run() call.
RunOptionSets ==
  { RunOptions(e, t, NoTimeout) : e \in {NoId, GivenEnv}, t \in {NoId, GivenThread} }

\* An agentConfig override: { model, reasoningEffort }
AgentConfig == [model |-> "claude-haiku-4-5", reasoningEffort |-> "low"]

\* What run() is called with: a task and one of the options above, or
\* another task and options that carry agentConfig, onEvent and timeout.
RunInputs ==
  { <<"Create hello.py", o>> : o \in RunOptionSets }
    \cup { <<"Add tests", RunOptionsWith(GivenEnv, NoId, <<AgentConfig>>, "returns", <<1>>)>> }

\* What a request of run() can throw: here, what request makes of a fetch
\* that failed.
RunFailures == { RequestCatch(BareError("TypeError", "fetch failed")) }

\* What sendMessage can throw: what its request threw, or its own error
\* for a response without body.
SendFailures == RunFailures \cup { BareError("Error", "No response body") }

\* The body a message send of run() is answered with: a response.completed
\* and a stream.completed.
RunBodies ==
  { Marker \o <<"{", "A", "}", NL>> \o Marker \o <<"{", "r", "}", NL>> }

\* What sendMessage returns for these bodies when no observer is given.
SendResults ==
  { LET st == ProcessChunk(InitialLocals, Encode(b), Undefined)
    IN Result(st.finalContent, st.runDetails, st.events) : b \in RunBodies }

\* ApiClient.request up to its await of fetch, for a request of the given
\* kind: one call of fetch.
Request(call, kind) ==
  [call EXCEPT !.pc = kind, !.made[kind] = @ + 1, !.fetches = @ + 1]

\* A request that calls fetch once more before it gives up.
ThrowAfterRetry(call, e) ==
  [call EXCEPT !.pc = "failed", !.error = e, !.fetches = @ + 1]

\* A run() that swallows the rejection and resolves without a result.
ThrowSwallowed(call, e) == [call EXCEPT !.pc = "returned"]

\* An awaited call rejects: run() has no try/catch, the rejection is the
\* rejection of run().
Throw(call, e) == [call EXCEPT !.pc = "failed", !.error = e]

\* find returning the last environment flagged default.
FindLastDefault(environments) ==
  LET idx == {i \in 1..Len(environments) : environments[i].isDefault} IN
  IF idx = {} THEN <<>>
  ELSE << environments[CHOOSE i \in idx : \A j \in idx : j <= i] >>

\* environments.find(e => e.isDefault): <<>> when there is none.
FindDefault(environments) ==
  LET idx == {i \in 1..Len(environments) : environments[i].isDefault} IN
  IF idx = {} THEN <<>>
  ELSE << environments[CHOOSE i \in idx : \A j \in idx : i <= j] >>

\* The parameters _ensureDefaultEnvironment creates an environment with.
DefaultEnvironmentParams ==
  [name |-> "default", internetAccess |-> TRUE, isDefault |-> TRUE]

\* The server's answer to POST /environments: the environment it stored.
CreatedEnvironment(environments, params) ==
  Environment(EnvId(Len(environments) + 1), params.name,
              params.internetAccess, params.isDefault)

\* The server's answer to POST /threads.
CreatedThread(ths, params) ==
  [id |-> ThreadId(Len(ths) + 1), environmentId |-> params.environmentId]

\* threads.sendMessage(threadId, {...}) up to its await of fetch.
\* A run() that leaves the observer and the timeout out.
SendParamsContentOnly(task, options) ==
  SendMessageOptions(task, options.agentConfig, Undefined, NoTimeout)

\* { content: task, agentConfig: options.agentConfig,
\*   onEvent: options.onEvent, timeout: options.timeout }
SendParams(task, options) ==
  SendMessageOptions(task, options.agentConfig, options.onEvent,
                     ForwardTimeout(options.timeout))

SendMessage(call, threadId) ==
  [Request(call, "send") EXCEPT !.threadId = threadId, !.sentTo = threadId,
                                !.sent = SendParams(call.task, call.options)]

\* A run() that creates a thread whatever its options say.
ResolveThreadAlwaysCreates(call, environmentId) ==
  Request([call EXCEPT !.environmentId = environmentId], "thread")

\* run() once the environment is known: let threadId = options.threadId;
\* create a thread when there is none, else send the message.
ResolveThread(call, environmentId) ==
  LET known == [call EXCEPT !.environmentId = environmentId] IN
  IF call.options.threadId = NoId
    THEN Request(known, "thread")
    ELSE SendMessage(known, call.options.threadId)

\* A resolution that forgets to write the cache.
CacheWriteDropped(old, id) == old

\* this._defaultEnvironmentId = environment.id
CacheWrite(old, id) == id

\* A resolution that never finds an id cached.
CachedNever(id) == FALSE

\* if (this._defaultEnvironmentId): an id is cached.
Cached(id) == id # NoId

\* A run() that resolves the default environment whatever its options say.
NeedsDefaultEnvironmentAlways(options) == TRUE

\* options.environmentId || ...: the default environment is resolved only
\* when no environmentId is given.
NeedsDefaultEnvironment(options) == options.environmentId = NoId

\* return { content: result.content, threadId, run: result.run }
Return(call, sent) ==
  [call EXCEPT !.pc = "done",
               !.result = RunResult(sent.content, call.threadId, sent.run)]

\* run(task, options) is called (the calls are numbered in the order in
\* which they are made): options.environmentId wins, else the cached id,
\* else the environments are listed.
RunStart(c) ==
  /\ calls[c].pc = "idle"
  /\ \A d \in 1..(c - 1) : calls[d].pc # "idle"
  /\ \E given \in RunInputs :
       LET o == given[2]
           call == [calls[c] EXCEPT !.task = given[1], !.options = o,
                                    !.after = {d \in Calls : calls[d].pc = "done"}] IN
       calls' = [calls EXCEPT ![c] =
                   IF ~NeedsDefaultEnvironment(o) THEN ResolveThread(call, o.environmentId)
                   ELSE IF Cached(cache) THEN ResolveThread(call, cache)
                   ELSE Request(call, "list")]
  /\ UNCHANGED <<cache, envs, threads>>

\* environments.list() settles: the first default environment is cached
\* and used, or an environment is created.
ListSettles(c) ==
  /\ calls[c].pc = "list"
  /\ \/ \E e \in RunFailures :
          /\ calls' = [calls EXCEPT ![c] = Throw(@, e)]
          /\ UNCHANGED cache
     \/ LET found == FindDefault(envs) IN
        IF found = <<>>
          THEN /\ calls' = [calls EXCEPT ![c] = Request(@, "create")]
               /\ UNCHANGED cache
          ELSE /\ cache' = CacheWrite(cache, found[1].id)
               /\ calls' = [calls EXCEPT ![c] = ResolveThread(@, found[1].id)]
  /\ UNCHANGED <<envs, threads>>

\* environments.create(...) settles: the new environment is cached and used.
CreateSettles(c) ==
  /\ calls[c].pc = "create"
  /\ \/ \E e \in RunFailures :
          /\ calls' = [calls EXCEPT ![c] = Throw(@, e)]
          /\ UNCHANGED <<cache, envs>>
     \/ LET environment == CreatedEnvironment(envs, DefaultEnvironmentParams) IN
        /\ envs' = Append(envs, environment)
        /\ cache' = CacheWrite(cache, environment.id)
        /\ calls' = [calls EXCEPT ![c] = ResolveThread(@, cache')]
  /\ UNCHANGED threads

\* threads.create({ environmentId }) settles: the message is sent to the
\* new thread.
ThreadSettles(c) ==
  /\ calls[c].pc = "thread"
  /\ \/ \E e \in RunFailures :
          /\ calls' = [calls EXCEPT ![c] = Throw(@, e)]
          /\ UNCHANGED threads
     \/ LET thread == CreatedThread(threads, [environmentId |-> calls[c].environmentId]) IN
        /\ threads' = Append(threads, thread)
        /\ calls' = [calls EXCEPT ![c] = SendMessage(@, thread.id)]
  /\ UNCHANGED <<cache, envs>>

\* threads.sendMessage(...) settles: it threw what request threw, or threw
\* for a response without body, or returned what it decoded from the
\* body; run() returns { content, threadId, run }.
SendSettles(c) ==
  /\ calls[c].pc = "send"
  /\ \/ \E e \in SendFailures :
          calls' = [calls EXCEPT ![c] = Throw([@ EXCEPT !.sendError = e], e)]
     \/ \E sent \in SendResults :
          calls' = [calls EXCEPT ![c] = Return(@, sent)]
  /\ UNCHANGED <<cache, envs, threads>>

\* The request and stream of a single sendMessage are not looked at here.
StreamIdle ==
  /\ body = <<>>
  /\ wire = <<>>
  /\ onEvent = Undefined
  /\ timeoutOpt = NoTimeout
  /\ configTimeout = NoTimeout
  /\ stream = TRUE
  /\ reqState = "idle"
  /\ response = NoResponse
  /\ pc = "start"
  /\ now = 0
  /\ timer = "unset"
  /\ deadline = 0
  /\ aborted = FALSE
  /\ reader = "none"
  /\ pos = 0
  /\ loc = InitialLocals
  /\ error = NoError
  /\ result = NoResult

streamVars == <<input, reqState, response, pc, now, timer, deadline, aborted,
                reader, pos, loc, error, result>>

InitRun ==
  /\ NoConstruction
  /\ NoFlights
  /\ cache = NoId
  /\ envs \in ServerEnvs
  /\ threads = <<>>
  /\ calls = [c \in Calls |-> IdleCall]
  /\ StreamIdle

NextRun ==
  \/ \E c \in Calls : RunStart(c) /\ UNCHANGED <<streamVars, ctorVars, pairVars>>
  \/ \E c \in Calls : ListSettles(c) /\ UNCHANGED <<streamVars, ctorVars, pairVars>>
  \/ \E c \in Calls : CreateSettles(c) /\ UNCHANGED <<streamVars, ctorVars, pairVars>>
  \/ \E c \in Calls : ThreadSettles(c) /\ UNCHANGED <<streamVars, ctorVars, pairVars>>
  \/ \E c \in Calls : SendSettles(c) /\ UNCHANGED <<streamVars, ctorVars, pairVars>>

SpecRun == InitRun /\ [][NextRun]_vars

\* ----------------------------------------- new ComputerAgentsClient(config)
\* The values a key can have where it is looked up: absent, the empty
\* string, a key.
ConfigKeys == {Undefined, "", "ca_config"}

ComputerAgentsKeys == {Undefined, "", "ca_env"}

TestbaseKeys == {Undefined, "", "tb_env"}

\* config.debug: absent, or true
DebugOptions == {<<>>, <<TRUE>>}

\* JavaScript's truthiness of a string or undefined.
Truthy(v) == v # Undefined /\ v # ""

\* a ?? b, taken for a || b: only undefined gives way.
OrNullish(a, b) == IF a # Undefined THEN a ELSE b

\* a || b
Or(a, b) == IF Truthy(a) THEN a ELSE b

\* The message of the Error thrown for a missing key.
MissingKeyMessage ==
  <<"C", "o", "m", "p", "u", "t", "e", "r", "A", "g", "e", "n", "t", "s",
     "C", "l", "i", "e", "n", "t", " ", "r", "e", "q", "u", "i", "r", "e",
     "s", " ", "a", "n", " ", "A", "P", "I", " ", "k", "e", "y", ".", " ",
     "P", "r", "o", "v", "i", "d", "e", " ", "i", "t", " ", "v", "i", "a",
     ":", NL, "1", ".", " ", "C", "o", "n", "s", "t", "r", "u", "c", "t",
     "o", "r", ":", " ", "n", "e", "w", " ", "C", "o", "m", "p", "u", "t",
     "e", "r", "A", "g", "e", "n", "t", "s", "C", "l", "i", "e", "n", "t",
     "(", "{", " ", "a", "p", "i", "K", "e", "y", ":", " ", "\"", ".", ".",
     ".", "\"", " ", "}", ")", NL, "2", ".", " ", "E", "n", "v", "i", "r",
     "o", "n", "m", "e", "n", "t", " ", "v", "a", "r", "i", "a", "b", "l",
     "e", ":", " ", "C", "O", "M", "P", "U", "T", "E", "R", "_", "A", "G",
     "E", "N", "T", "S", "_", "A", "P", "I", "_", "K", "E", "Y" >>

\* The text 'API key', as the test looks for it.
ApiKeyText == <<"A", "P", "I", " ", "k", "e", "y">>

\* message.includes(part)
Includes(message, part) ==
  \E i \in 1..(Len(message) - Len(part) + 1) :
    SubSeq(message, i, i + Len(part) - 1) = part

\* new ApiClient(config): timeout ?? 60000, debug ?? false
NewApiClient(config) ==
  ApiClientOf(config.apiKey, ClientTimeout(config.timeout),
              IF config.debug = <<>> THEN FALSE ELSE config.debug[1])

\* config.apiKey || process.env.COMPUTER_AGENTS_API_KEY
\*               || process.env.TESTBASE_API_KEY
ResolveApiKey(config, env) ==
  Or(Or(config.apiKey, env.COMPUTER_AGENTS_API_KEY), env.TESTBASE_API_KEY)

\* The constructor runs: it throws for a missing key, or makes the
\* ApiClient with the key it found.
Construct ==
  /\ construction = "new"
  /\ LET apiKey == ResolveApiKey(clientConfig, processEnv) IN
     IF ~Truthy(apiKey)
       THEN /\ construction' = "threw"
            /\ ctorMessage' = MissingKeyMessage
            /\ UNCHANGED api
       ELSE /\ construction' = "constructed"
            /\ api' = NewApiClient(ClientConfig(apiKey, clientConfig.timeout,
                                                clientConfig.debug))
            /\ UNCHANGED ctorMessage
  /\ UNCHANGED <<clientConfig, processEnv, client, streamVars, pairVars>>

InitCtor ==
  /\ clientConfig \in { ClientConfig(k, t, d) :
                          k \in ConfigKeys, t \in ConfigTimeouts, d \in DebugOptions }
  /\ processEnv \in { ProcessEnv(k, t) : k \in ComputerAgentsKeys, t \in TestbaseKeys }
  /\ construction = "new"
  /\ api = NoApi
  /\ ctorMessage = <<>>
  /\ FreshClient
  /\ StreamIdle
  /\ NoFlights

NextCtor == Construct

SpecCtor == InitCtor /\ [][NextCtor]_vars

\* The first of the three places that holds a key, in the order config,
\* COMPUTER_AGENTS_API_KEY, TESTBASE_API_KEY; <<>> when none does.
FirstKey ==
  IF Truthy(clientConfig.apiKey) THEN <<clientConfig.apiKey>>
  ELSE IF Truthy(processEnv.COMPUTER_AGENTS_API_KEY)
    THEN <<processEnv.COMPUTER_AGENTS_API_KEY>>
  ELSE IF Truthy(processEnv.TESTBASE_API_KEY) THEN <<processEnv.TESTBASE_API_KEY>>
  ELSE <<>>

\* C22: once the constructor has run: it threw exactly when none of
\* config.apiKey, COMPUTER_AGENTS_API_KEY and TESTBASE_API_KEY holds a key;
\* when it threw, the message includes 'API key' and no ApiClient was
\* made; when it did not, the ApiClient holds the key of the first of the
\* three places, in that order, that holds one.
C22_ApiKey ==
  construction # "new" =>
    /\ construction = "threw" <=> FirstKey = <<>>
    /\ construction = "threw" =>
         Includes(ctorMessage, ApiKeyText) /\ api = NoApi
    /\ construction = "constructed" =>
         api.apiKey = FirstKey[1] /\ ctorMessage = <<>>

\* A client was made with the key of COMPUTER_AGENTS_API_KEY although
\* TESTBASE_API_KEY holds one too and config.apiKey is the empty string.
C22_Witness ==
  /\ construction = "constructed"
  /\ clientConfig.apiKey = ""
  /\ processEnv.TESTBASE_API_KEY = "tb_env"
  /\ api.apiKey = "ca_env"

\* The constructor threw with no key in any of the three places.
C22_WitnessThrew ==
  /\ construction = "threw"
  /\ processEnv.TESTBASE_API_KEY = ""
  /\ api = NoApi

\* ---------------------------------------------- what the claims refer to
Last(s) == s[Len(s)]

\* The lines of a body that are terminated by a newline, in order.
CompleteLines(b) == Popped(Split(b))

\* The text of a body after its last newline.
TailOf(b) == PopOrEmpty(Split(b))

\* The events of the `data: ` lines among `lines` whose payload is JSON.
RECURSIVE EventsOfLines(_)
EventsOfLines(lines) ==
  IF lines = <<>> THEN <<>>
  ELSE LET l == Head(lines)
           p == JSONParse(Slice(l, MarkerLen))
       IN (IF StartsWith(l, Marker) /\ p.ok THEN <<p.value>> ELSE <<>>)
          \o EventsOfLines(Tail(lines))

\* The events a body carries, in wire order.
DecodedEvents(b) == EventsOfLines(CompleteLines(b))

IsCall(t) == t.op = "onEvent"

\* The events the observer was called with, in the order of the calls.
ObserverCalls(trace) ==
  LET made == SelectSeq(trace, IsCall) IN [i \in 1..Len(made) |-> made[i].ev]

CountType(ev, type) == Cardinality({i \in 1..Len(ev) : ev[i].type = type})

\* The content of the last response.completed among `ev`, '' if none.
LastContent(ev) ==
  LET idx == {i \in 1..Len(ev) : ev[i].type = "response.completed"} IN
  IF idx = {} THEN ""
  ELSE ev[CHOOSE i \in idx : \A j \in idx : j <= i].content

Terminated == pc \in {"returned", "failed"}

\* ------------------------------------------------------------------ claims

\* C1: when a stream.error event has been decoded, sendMessage has failed
\* with that event's message, the error event is the last event logged (no
\* later frame was processed), and the observer has been called with every
\* event up to and including it, in arrival order.
C1_StreamErrorRaises ==
  \A i \in 1..Len(loc.events) :
    loc.events[i].type = "stream.error" =>
      /\ i = Len(loc.events)
      /\ pc = "failed"
      /\ error.message = loc.events[i].message
      /\ onEvent # Undefined => ObserverCalls(loc.trace) = loc.events

\* A body of complete lines that carries no stream.error and exactly one
\* stream.completed, as its last event.
EndsInOneStreamCompleted(b) ==
  LET ev == DecodedEvents(b) IN
  /\ TailOf(b) = <<>>
  /\ ev # <<>>
  /\ Last(ev).type = "stream.completed"
  /\ CountType(ev, "stream.completed") = 1
  /\ CountType(ev, "stream.error") = 0

\* C2: for a stream that ends in exactly one stream.completed and has no
\* stream.error, the result's run is that event's run and its content is
\* the content of the last response.completed ('' if there is none).
C2_RunAndLastContent ==
  (stream /\ pc = "returned" /\ EndsInOneStreamCompleted(body)) =>
    /\ result.run = Last(DecodedEvents(body)).run
    /\ result.content = LastContent(DecodedEvents(body))

\* C3: a sendMessage call that ends after its deadline has passed (its byte
\* source was still open when `timeout` had elapsed) ends with the error
\* 408 TIMEOUT and does not hold the reader.
C3_DeadlineCoversStream ==
  (stream /\ Terminated /\ now > deadline) =>
    /\ pc = "failed"
    /\ error.status = "408"
    /\ error.code = "TIMEOUT"
    /\ reader # "locked"

\* The locals of a call that receives the first n bytes of the body as one
\* chunk.
OneChunk(n) == ProcessChunk(InitialLocals, SubSeq(wire, 1, n), onEvent)

\* C4: whatever the chunk boundaries, after any number of bytes the events
\* decoded (and the observer calls made) are those of a call that received
\* the same bytes as one chunk; so is the returned event log.
C4_ChunkBoundaries ==
  (stream /\ reader # "none") =>
    /\ loc.events = OneChunk(pos).events
    /\ loc.trace = OneChunk(pos).trace
    /\ pc = "returned" => result.events = OneChunk(Len(wire)).events

\* A chunk ended inside a multi-byte character of a data line, after an
\* event had been decoded, and the next chunk is awaited.
C4_Witness ==
  /\ pc = "read"
  /\ loc.events # <<>>
  /\ loc.pending # <<>>
  /\ StartsWith(loc.buffer, Marker)

\* C5: a sendMessage call that has ended, by returning or by throwing, does
\* not hold the reader of the response body.
C5_ReaderReleased == Terminated => reader # "locked"

\* A read failed in the middle of the stream and the reader was released.
C5_Witness ==
  /\ pc = "failed"
  /\ reader = "released"
  /\ error.kind = "TypeError"
  /\ pos > 0
  /\ pos < Len(wire)

\* C6: whenever a chunk is awaited (and when the call has ended) every event
\* logged so far has been followed at once by its observer call, before the
\* next event was logged: the effects are push(e1), onEvent(e1), push(e2),
\* onEvent(e2), ... in wire order, with no observer call outstanding.
C6_BackPressure ==
  (stream /\ onEvent # Undefined /\ reader # "none") =>
    /\ Len(loc.trace) = 2 * Len(loc.events)
    /\ \A i \in 1..Len(loc.events) :
         /\ loc.trace[2 * i - 1] = [op |-> "push", ev |-> loc.events[i]]
         /\ loc.trace[2 * i] = [op |-> "onEvent", ev |-> loc.events[i]]

\* A read is awaited after two events were logged and went to the observer.
C6_Witness ==
  /\ pc = "read"
  /\ onEvent = "returns"
  /\ Len(loc.events) = 2
  /\ Len(ObserverCalls(loc.trace)) = 2

\* The body made of the complete lines of b that satisfy Keep, and b's tail.
RECURSIVE Join(_)
Join(lines) ==
  IF lines = <<>> THEN <<>> ELSE Head(lines) \o <<NL>> \o Join(Tail(lines))

\* A data line whose event has none of the five recognized types.
IsUnknownTypeLine(l) ==
  /\ StartsWith(l, Marker)
  /\ JSONParse(Slice(l, MarkerLen)).ok
  /\ JSONParse(Slice(l, MarkerLen)).value.type \notin
       {"response.started", "response.item.completed", "response.completed",
        "stream.completed", "stream.error"}

IsKnownLine(l) == ~IsUnknownTypeLine(l)

\* A data line whose payload is not empty and is not JSON.
IsMalformedLine(l) ==
  /\ StartsWith(l, Marker)
  /\ ~JSONParse(Slice(l, MarkerLen)).ok
  /\ Trim(Slice(l, MarkerLen)) # <<>>

IsNotMalformedLine(l) == ~IsMalformedLine(l)

WithoutUnknown(b) == Join(SelectSeq(CompleteLines(b), IsKnownLine)) \o TailOf(b)

WithoutMalformed(b) == Join(SelectSeq(CompleteLines(b), IsNotMalformedLine)) \o TailOf(b)

\* The locals of a call that receives body b as one chunk.
Whole(b) == ProcessChunk(InitialLocals, Encode(b), onEvent)

\* C7: the returned event log is the sequence of the events of the body's
\* data lines, each once, in wire order, events of unrecognized type
\* included; those events change neither content nor run (the same body
\* without them gives the same content and run); and the observer, when
\* there is one, was called once per logged event in the same order.
C7_EventLogComplete ==
  (stream /\ pc = "returned") =>
    /\ result.events = DecodedEvents(body)
    /\ onEvent # Undefined => ObserverCalls(loc.trace) = result.events
    /\ result.content = Whole(WithoutUnknown(body)).finalContent
    /\ result.run = Whole(WithoutUnknown(body)).runDetails

\* A call returned a log that holds an event of unrecognized type after a
\* response.completed, and the observer saw both.
C7_Witness ==
  /\ pc = "returned"
  /\ onEvent = "returns"
  /\ Len(result.events) = 2
  /\ result.events[1].type = "response.completed"
  /\ result.events[2].type = "custom.event"

\* C8: a data line whose payload is not JSON never makes the call throw,
\* and the call returns what it returns for the same body without that
\* line: the same log, content and run, and the same observer calls.
C8_MalformedDropped ==
  /\ error.kind # "SyntaxError"
  /\ (stream /\ pc = "returned") =>
       LET clean == Whole(WithoutMalformed(body)) IN
       /\ result = Result(clean.finalContent, clean.runDetails, clean.events)
       /\ loc.trace = clean.trace

\* A call returned the event of a line that came after a malformed line.
C8_Witness ==
  /\ pc = "returned"
  /\ Len(CompleteLines(body)) = 2
  /\ IsMalformedLine(CompleteLines(body)[1])
  /\ result.events # <<>>

\* C9: every error sendMessage throws to its caller is an ApiClientError
\* with a status.
C9_UniformError ==
  (stream /\ pc = "failed") =>
    /\ error.kind = "ApiClientError"
    /\ error.status # Undefined

Returned(c) == calls[c].pc = "done"

Failed(c) == calls[c].pc = "failed"

\* The server holds a thread of this id in this environment.
ThreadIn(threadId, environmentId) ==
  \E i \in 1..Len(threads) :
    threads[i].id = threadId /\ threads[i].environmentId = environmentId

\* C11: a call given options.threadId makes no thread-creation request,
\* sends its message to exactly that thread and returns that id; a call
\* without it makes exactly one thread-creation request, for the resolved
\* environment id, sends its message to the created thread and returns its
\* id. A returned threadId is never absent.
C11_ThreadResolution ==
  \A c \in Calls :
    LET call == calls[c] IN
    /\ call.options.threadId # NoId => call.made.thread = 0
    /\ call.made.thread <= 1
    /\ call.pc \in {"send", "done"} =>
         /\ call.sentTo = call.threadId
         /\ IF call.options.threadId # NoId
              THEN call.threadId = call.options.threadId
              ELSE /\ call.made.thread = 1
                   /\ ThreadIn(call.threadId, call.environmentId)
                   /\ call.options.environmentId # NoId =>
                        call.environmentId = call.options.environmentId
    /\ Returned(c) =>
         /\ call.result.threadId # NoId
         /\ call.result.threadId = call.threadId
         /\ call.made.send = 1

\* One call returned the thread it was given, another the thread it created.
C11_Witness ==
  \E c, d \in Calls :
    /\ Returned(c) /\ calls[c].options.threadId = GivenThread
    /\ calls[c].result.threadId = GivenThread
    /\ Returned(d) /\ calls[d].options.threadId = NoId
    /\ calls[d].result.threadId = ThreadId(1)

\* The call was made without environmentId and without threadId.
Plain(c) == calls[c].pc # "idle" /\ calls[c].options = NoOptions

\* C12: of two calls made without threadId and without environmentId on a
\* fresh client, each lists the environments at most once and creates at
\* most one (at most two resolutions in total), and each one that returned
\* has a threadId; when the second was made after the first had returned,
\* the cache was set and the second made no list and no create request.
C12_TwoPlainCalls ==
  \A c, d \in Calls :
    (c # d /\ Plain(c) /\ Plain(d)) =>
      /\ calls[c].made.list <= 1 /\ calls[c].made.create <= calls[c].made.list
      /\ calls[c].made.list + calls[d].made.list <= 2
      /\ Returned(c) => calls[c].result.threadId # NoId
      /\ c \in calls[d].after =>
           /\ cache # NoId
           /\ calls[d].made.list = 0 /\ calls[d].made.create = 0

\* The first call listed and returned, then the second was made and
\* returned too, without a list request.
C12_Witness ==
  /\ Plain(1) /\ Returned(1) /\ calls[1].made.list = 1
  /\ Plain(2) /\ Returned(2) /\ 1 \in calls[2].after
  /\ calls[2].made.list = 0

\* The id of the first environment of the list that is flagged default.
IsFirstDefault(id, environments) ==
  \E i \in 1..Len(environments) :
    /\ environments[i].isDefault /\ environments[i].id = id
    /\ \A j \in 1..(i - 1) : ~environments[j].isDefault

NoneDefault(environments) ==
  \A i \in 1..Len(environments) : ~environments[i].isDefault

\* The call has its environment id: it waits for its thread or its send,
\* or has returned.
Resolved(call) == call.pc \in {"thread", "send", "done"}

\* C13: a call made without environmentId while the cache is unset lists
\* the environments. When the list it gets holds an environment flagged
\* default, the call uses the first such one and has made no creation
\* request; otherwise it makes exactly one creation request, and the
\* environment the server creates for it is named `default`, has
\* internetAccess true and isDefault true, and is the one the call uses.
\* When the resolution ends, the cache holds the id of the environment the
\* call uses.
C13_DefaultResolution ==
  [][\A c \in Calls :
       LET old == calls[c]
           new == calls'[c]
       IN
       /\ (old.pc = "idle" /\ new.pc # "idle" /\ new.options.environmentId = NoId
              /\ cache = NoId) =>
            new.pc = "list" /\ new.made.list = 1 /\ new.made.create = 0
       /\ (old.pc = "list" /\ new.pc # "list" /\ new.pc # "failed") =>
            IF NoneDefault(envs)
              THEN new.pc = "create" /\ new.made.create = 1
              ELSE /\ Resolved(new) /\ new.made.create = 0
                   /\ IsFirstDefault(new.environmentId, envs)
                   /\ cache' = new.environmentId
                   /\ envs' = envs
       /\ (old.pc = "create" /\ new.pc # "create" /\ new.pc # "failed") =>
            /\ Resolved(new) /\ new.made.create = 1
            /\ Len(envs') = Len(envs) + 1
            /\ envs'[Len(envs')] =
                 Environment(new.environmentId, "default", TRUE, TRUE)
            /\ cache' = new.environmentId
    ]_vars

\* On a server without environments one call created the environment and
\* another, listing afterwards, found and used it without creating one.
C13_Witness ==
  \E c, d \in Calls :
    /\ Resolved(calls[c]) /\ calls[c].made.create = 1
    /\ Resolved(calls[d]) /\ calls[d].made.list = 1 /\ calls[d].made.create = 0
    /\ calls[c].environmentId = calls[d].environmentId
    /\ cache = calls[c].environmentId
    /\ Len(envs) = 1 /\ envs[1].name = "default"

\* C14: no step of a call given options.environmentId changes the cache;
\* such a call makes no list and no creation request for environments,
\* uses the given id, and a thread created for it is created in the given
\* environment. The cache never holds the given id.
C14_GivenEnvironment ==
  [][\A c \in Calls :
       LET new == calls'[c] IN
       (new # calls[c] /\ new.options.environmentId # NoId) =>
         /\ cache' = cache
         /\ cache' # new.options.environmentId
         /\ envs' = envs
         /\ new.made.list = 0 /\ new.made.create = 0
         /\ new.environmentId = new.options.environmentId
         /\ threads' # threads =>
              /\ Len(threads') = Len(threads) + 1
              /\ threads'[Len(threads')].environmentId = new.options.environmentId
    ]_vars

\* A call given an environment id returned with a thread created in that
\* environment; the cache is still unset.
C14_Witness ==
  \E c \in Calls :
    /\ Returned(c) /\ calls[c].options.environmentId = GivenEnv
    /\ calls[c].made.thread = 1
    /\ ThreadIn(calls[c].result.threadId, GivenEnv)
    /\ cache = NoId

RECURSIVE SumCreates(_)
SumCreates(n) == IF n = 0 THEN 0 ELSE calls[n].made.create + SumCreates(n - 1)

\* The number of environment-creation requests made so far.
TotalCreates == SumCreates(NCalls)

\* The server held no environment before the first call, and no call was
\* given an environmentId.
FirstTimeRace ==
  /\ \A i \in 1..Len(envs) : envs[i].name = "default"
  /\ \A c \in Calls : calls[c].options.environmentId = NoId

\* The cache is unset or holds the id some call's resolution returned.
CacheFromResolution ==
  \/ cache = NoId
  \/ \E c \in Calls : cache = calls[c].environmentId

\* C15 as stated: when first-time calls without environmentId race on a
\* server without default environment, the cache holds an id returned by
\* a resolution and at most two creation requests are made in total.
C15_AtMostTwoCreations ==
  FirstTimeRace => CacheFromResolution /\ TotalCreates <= 2

\* C15, amended: when first-time calls without environmentId race on a
\* server without default environment, each call makes at most one
\* creation request, and only if it listed the environments (so k racing
\* calls make at most k creation requests: two for two calls); once a
\* call has resolved its environment, the cache holds an id that the
\* resolution of some call returned, and that environment exists on the
\* server.
C15_RaceBounded ==
  FirstTimeRace =>
    /\ \A c \in Calls : calls[c].made.create <= calls[c].made.list
                        /\ calls[c].made.list <= 1
    /\ TotalCreates <= Cardinality({c \in Calls : calls[c].made.list = 1})
    /\ Len(envs) <= TotalCreates
    /\ (\E c \in Calls : calls[c].environmentId # NoId) =>
         /\ cache # NoId
         /\ CacheFromResolution
         /\ \E i \in 1..Len(envs) : envs[i].id = cache

\* Three calls raced: each listed before any creation settled, each
\* created an environment, and the cache holds the id of one of them.
C15_Witness ==
  /\ FirstTimeRace
  /\ TotalCreates = 3
  /\ Len(envs) = 3
  /\ \A c \in Calls : Resolved(calls[c])
  /\ cache # NoId

\* C16: once the cache holds an id, no step replaces or resets it, and a
\* call made without environmentId from then on uses the cached
\* environment.
C16_CacheStable ==
  [][/\ cache # NoId => cache' = cache
     /\ \A c \in Calls :
          (calls[c].pc = "idle" /\ calls'[c].pc # "idle" /\ cache # NoId
             /\ calls'[c].options.environmentId = NoId) =>
            calls'[c].environmentId = cache
    ]_vars

\* The number of requests a call made.
Requests(call) ==
  call.made.list + call.made.create + call.made.thread + call.made.send

\* C17: every request a call of run() made called fetch exactly once,
\* whether it is pending, succeeded or failed; a call makes at most one
\* message-send request; and when sendMessage threw, run() failed with
\* that same error.
C17_NoRetry ==
  \A c \in Calls :
    /\ calls[c].fetches = Requests(calls[c])
    /\ calls[c].made.send <= 1
    /\ calls[c].sendError # NoError =>
         Failed(c) /\ calls[c].error = calls[c].sendError

\* A call failed in its message send, after a list, a creation and a
\* thread creation that succeeded: four requests, four calls of fetch.
C17_Witness ==
  \E c \in Calls :
    /\ Failed(c)
    /\ calls[c].sendError \in SendFailures
    /\ calls[c].made = [list |-> 1, create |-> 1, thread |-> 1, send |-> 1]
    /\ calls[c].fetches = 4

\* ------------------------------------------ more claims about sendMessage

\* C18: when the message-send request was answered with a non-2xx
\* status, sendMessage has failed with an ApiClientError carrying that
\* status, no reader was acquired, no byte was read, no event was logged,
\* the observer was not called and no result was returned.
C18_Non2xxBeforeStream ==
  (stream /\ response # NoResponse /\ ~response.ok) =>
    /\ pc = "failed"
    /\ error.kind = "ApiClientError"
    /\ error.status = response.status
    /\ reader = "none"
    /\ pos = 0
    /\ loc.events = <<>>
    /\ loc.trace = <<>>
    /\ result = NoResult

\* A message send with an observer and a body of events was answered 404.
C18_Witness ==
  /\ stream /\ onEvent = "returns" /\ DecodedEvents(body) # <<>>
  /\ response.status = "404"
  /\ pc = "failed" /\ error.status = "404"

\* What a rejected read() leaves sendMessage with.
ReadRejections ==
  { BareError("TypeError", "terminated"),
    BareError("AbortError", "This operation was aborted") }

\* C19: for a body that carries no stream.error, nothing but a rejected
\* read makes sendMessage fail once it has its reader (no line of the body
\* makes it raise), and when the byte source has closed sendMessage has
\* returned, after all bytes were read: content is '' when no
\* response.completed was logged, run is absent when no stream.completed
\* was logged, and a body without frames gives content '' and an empty
\* event log.
C19_CloseReturns ==
  (stream /\ CountType(DecodedEvents(body), "stream.error") = 0) =>
    /\ (pc = "failed" /\ reader = "released") => error \in ReadRejections
    /\ (pc = "read" /\ pos = Len(wire) /\ ~aborted) => ENABLED ReadDone
    /\ pc = "returned" =>
         /\ pos = Len(wire)
         /\ result.events = loc.events
         /\ CountType(result.events, "response.completed") = 0 =>
              result.content = ""
         /\ CountType(result.events, "stream.completed") = 0 =>
              result.run = Undefined
         /\ DecodedEvents(body) = <<>> =>
              result.content = "" /\ result.events = <<>>

\* The source closed after a body of lines none of which is a frame that
\* parses: sendMessage returned '' and an empty log.
C19_Witness ==
  /\ stream /\ pc = "returned"
  /\ body # <<>> /\ DecodedEvents(body) = <<>>
  /\ result = Result("", Undefined, <<>>)

\* The timeout the client was configured with, 60000 when it was not.
Configured ==
  IF configTimeout = NoTimeout THEN DefaultClientTimeout ELSE configTimeout[1]

\* C20: the timer of a request is armed for the per-call timeout when one
\* is given, else for the client's configured timeout, else for 60000;
\* the request of a message send is given options.timeout when the caller
\* gave one and 600000 otherwise, so its timer is never armed for the
\* client's configured timeout.
C20_EffectiveDeadline ==
  pc # "start" =>
    deadline =
      IF stream
        THEN IF timeoutOpt # NoTimeout THEN timeoutOpt[1] ELSE DefaultSendTimeout
        ELSE IF timeoutOpt # NoTimeout THEN timeoutOpt[1] ELSE Configured

\* A message send without timeout option, on a client configured with a
\* timeout of its own, waits for fetch with its timer armed for 600000.
C20_Witness ==
  /\ stream /\ timeoutOpt = NoTimeout /\ configTimeout # NoTimeout
  /\ pc = "fetch" /\ timer = "armed"
  /\ deadline = DefaultSendTimeout

\* The text decoded from the bytes read so far.
ReceivedText == DecodeBytes(<<>>, SubSeq(wire, 1, pos)).text

\* C24: at any point of the reading the event log holds the events of the
\* lines whose newline was received, and no others; the text after the
\* last newline is in the buffer. When the source closed behind an
\* unterminated last line, even a complete `data: ` frame, sendMessage
\* returned the events of the terminated lines only, without error.
C24_UnterminatedTail ==
  (stream /\ reader # "none") =>
    /\ loc.events = EventsOfLines(CompleteLines(ReceivedText))
    /\ loc.buffer = TailOf(ReceivedText)
    /\ (pos = Len(wire) /\ TailOf(body) # <<>>) =>
         /\ loc.events = DecodedEvents(body)
         /\ loc.thrown = NoError
         /\ pc = "returned" => result.events = DecodedEvents(body) /\ error = NoError

\* The source closed behind one terminated frame and one complete frame
\* without newline: one event was returned.
C24_Witness ==
  /\ stream /\ pc = "returned"
  /\ JSONParse(Slice(TailOf(body), MarkerLen)).ok
  /\ Len(result.events) = 1
  /\ loc.buffer = TailOf(body)

\* The text after the last newline of `text`, all of it when it has none.
AfterLastNewline(text) ==
  LET idx == {i \in 1..Len(text) : text[i] = NL} IN
  IF idx = {} THEN text
  ELSE SubSeq(text, (CHOOSE i \in idx : \A j \in idx : j <= i) + 1, Len(text))

\* C30: whenever the loop waits for the next chunk or has ended, the
\* buffer holds no newline and is the text received after the last newline
\* received, and the lines processed so far, each followed by a newline,
\* followed by the buffer, are the text received so far.
C30_RollingBuffer ==
  (stream /\ reader # "none") =>
    /\ \A i \in 1..Len(loc.buffer) : loc.buffer[i] # NL
    /\ loc.buffer = AfterLastNewline(ReceivedText)
    /\ Join(loc.seen) \o loc.buffer = ReceivedText

\* A line was processed and a part of the next one is in the buffer.
C30_Witness ==
  /\ stream /\ pc = "read"
  /\ Len(loc.seen) = 1
  /\ loc.buffer # <<>>
  /\ pos < Len(wire)

\* What sendMessage returns for the bytes of the body when no observer is
\* given.
WithoutObserver ==
  LET st == ProcessChunk(InitialLocals, wire, Undefined) IN
  Result(st.finalContent, st.runDetails, st.events)

\* C26: what sendMessage returns is what it returns for the same stream
\* without observer, whether the observer given returns or throws.
C26_ObserverIndependent ==
  (stream /\ pc = "returned") => result = WithoutObserver

\* The line begins with `data: ` and has a payload behind it.
Producing(l) ==
  /\ Len(l) > MarkerLen
  /\ \A i \in 1..MarkerLen : l[i] = Marker[i]

\* C23: the event log is the log of the complete lines that begin with
\* `data: ` and have a payload: blank lines, comment lines, `event:`
\* lines, `data:` lines without the space and `data: ` lines without
\* payload add no event, cause no call of the observer, no warning and no
\* exception.
C23_OnlyDataLines ==
  (stream /\ reader # "none") =>
    LET kept == SelectSeq(loc.seen, Producing) IN
    /\ loc.events = EventsOfLines(kept)
    /\ onEvent # Undefined => ObserverCalls(loc.trace) = loc.events
    /\ onEvent = Undefined => ObserverCalls(loc.trace) = <<>>
    /\ loc.warned <= Len(kept)
    /\ loc.thrown = NoError
    /\ pc = "failed" => error \in ReadRejections

\* After a comment line and a frame, one event was logged and went to the
\* observer; the call returned.
C23_Witness ==
  /\ stream /\ pc = "returned" /\ onEvent = "returns"
  /\ Len(loc.seen) = 2
  /\ loc.seen[1] # <<>> /\ ~Producing(loc.seen[1])
  /\ Producing(loc.seen[2])
  /\ Len(result.events) = 1
  /\ Len(ObserverCalls(loc.trace)) = 1

\* ------------------------------------------------ more claims about run()

\* C27: a call made after another call returned, with a threadId and
\* without environmentId, makes no environment list request and no
\* environment creation request: its only request is the message send to
\* the given thread.
C27_FollowUpNoEnvironment ==
  \A c \in Calls :
    LET call == calls[c] IN
    (call.pc # "idle" /\ call.after # {} /\ call.options.threadId # NoId
       /\ call.options.environmentId = NoId) =>
      /\ call.made.list = 0
      /\ call.made.create = 0
      /\ call.made.thread = 0
      /\ call.fetches = call.made.send
      /\ call.made.send = 1 => call.sentTo = call.options.threadId

\* C28: when the list request or the creation request of a call's
\* default-environment resolution fails, the call fails with that failure,
\* has made and makes no thread-creation and no message-send request, and
\* the step leaves the cache as it was (unset, unless another call has
\* set it); a call made without environmentId while the cache is unset
\* lists the environments again.
C28_FailedResolution ==
  [][\A c \in Calls :
       LET old == calls[c]
           new == calls'[c]
       IN
       /\ (old.pc \in {"list", "create"} /\ new.pc \notin {"list", "create"}
              /\ ~Resolved(new)) =>
            /\ new.pc = "failed"
            /\ new.error \in RunFailures
            /\ new.made.thread = 0 /\ new.made.send = 0
            /\ new.fetches = old.fetches
            /\ new.environmentId = NoId
            /\ cache' = cache /\ threads' = threads /\ envs' = envs
       /\ old.pc = "failed" => new = old
       /\ (old.pc = "idle" /\ new.pc # "idle" /\ cache = NoId
              /\ new.options.environmentId = NoId) => new.pc = "list"
    ]_vars

\* A call failed in its resolution, the cache is still unset, and a call
\* made later has listed the environments again and got its environment.
C28_Witness ==
  \E c, d \in Calls :
    /\ c < d
    /\ Failed(c) /\ calls[c].made.list = 1 /\ calls[c].made.thread = 0
    /\ calls[c].environmentId = NoId
    /\ calls[d].made.list = 1 /\ Resolved(calls[d])
    /\ cache = calls[d].environmentId

\* C25: in every step of a run() call: the thread-creation request is
\* issued only when the environment is known and no list or create request
\* of the call is pending, and no environment request follows it; the
\* message-send request is issued only when the thread is known (given, or
\* created by the call's settled thread-creation request), and no other
\* request follows it; a call that failed issues no further request and
\* holds the failure of the step that failed; the message is sent with the
\* task as content and with the agentConfig, observer and timeout of the
\* options.
C25_StepOrder ==
  [][\A c \in Calls :
       LET old == calls[c]
           new == calls'[c]
       IN
       /\ new.made.thread > old.made.thread =>
            /\ old.pc \in {"idle", "list", "create"}
            /\ new.pc = "thread"
            /\ new.environmentId # NoId
            /\ new.made.send = 0
            /\ old.pc = "idle" => new.made.list = 0 /\ new.made.create = 0
            /\ old.pc = "list" => new.environmentId \in {envs[i].id : i \in 1..Len(envs)}
            /\ old.pc = "create" => new.environmentId = envs'[Len(envs')].id
       /\ old.made.thread > 0 =>
            new.made.list = old.made.list /\ new.made.create = old.made.create
       /\ new.made.send > old.made.send =>
            /\ new.pc = "send"
            /\ new.sentTo # NoId
            /\ IF new.options.threadId # NoId
                 THEN new.sentTo = new.options.threadId /\ new.made.thread = 0
                 ELSE /\ old.pc = "thread"
                      /\ new.made.thread = 1
                      /\ new.sentTo = threads'[Len(threads')].id
                      /\ Len(threads') = Len(threads) + 1
            /\ new.sent = SendMessageOptions(new.task, new.options.agentConfig,
                                             new.options.onEvent, new.options.timeout)
       /\ old.made.send > 0 => new.made = old.made
       /\ (new.pc = "failed" /\ old.pc # "failed") =>
            /\ new.made = old.made
            /\ new.error \in (IF old.pc = "send" THEN SendFailures ELSE RunFailures)
            /\ new.result = NoRunResult
       /\ old.pc = "failed" => new = old
    ]_vars

\* A call given agentConfig, observer and timeout has created its thread
\* and sent its message, and another call failed in its thread creation
\* after resolving its environment.
C25_Witness ==
  \E c, d \in Calls :
    /\ calls[c].made.thread = 1 /\ calls[c].made.send = 1
    /\ calls[c].sent.onEvent = "returns" /\ calls[c].sent.timeout = <<1>>
    /\ calls[c].sent.agentConfig = <<AgentConfig>>
    /\ calls[c].sent.content = "Add tests"
    /\ Failed(d) /\ calls[d].made.list = 1 /\ calls[d].made.thread = 1
    /\ calls[d].made.send = 0

\* ------------------------------------- requests in flight at the same time
\* NFlights requests of one ApiClient, each a buffered call or the request
\* of a sendMessage call, with steps interleaved in any order. Each call of
\* request has its own controller and timer, each call of sendMessage its
\* own reader, decoder, buffer, events, finalContent and runDetails. A
\* timer is due at a time of its own: it can fire at any step while armed.
FlightIds == 1..NFlights

\* The body each streamed request is answered with: a response.completed
\* and a stream.completed for the first, a response.completed with other
\* content and an event of unknown type for the others.
FlightBody(i) ==
  IF i = 1
    THEN Marker \o <<"{", "A", "}", NL>> \o Marker \o <<"{", "r", "}", NL>>
    ELSE Marker \o <<"{", EAcute, "}", NL>> \o Marker \o <<"{", "u", "}", NL>>

\* The calls that can be in flight as request i.
FlightChoices(i) ==
  { Flight(FALSE, <<>>, Undefined) }
    \cup { Flight(TRUE, Encode(FlightBody(i)), o) : o \in Observers }

\* Locals declared outside sendMessage, shared by all its calls.
LocalsShared(fs, i) == fs[1].loc

\* const events = []; let finalContent = ''; let runDetails; let buffer =
\* '': the locals of the call itself.
Locals(fs, i) == fs[i].loc

\* request up to its await of fetch: the controller is made, the timer
\* armed.
FlightStart(i) ==
  /\ flights[i].pc = "start"
  /\ flights' = [flights EXCEPT ![i] =
                  [@ EXCEPT !.pc = "fetch", !.reqState = "pending",
                            !.timer = "armed"]]

\* fetch resolves: the timer is cleared, request throws or returns, and
\* sendMessage takes the reader or throws for a missing body.
FlightFetchResolves(i) ==
  LET f == flights[i] IN
  /\ f.pc = "fetch"
  /\ ~f.aborted
  /\ \E r \in IF f.stream THEN StreamResponses ELSE BufferedResponses :
       LET e == IF f.stream THEN StreamOutcome(r) ELSE BufferedOutcome(r)
           cleared == [f EXCEPT !.timer = ClearTimeout(@)]
       IN
       flights' = [flights EXCEPT ![i] =
         IF e # NoError
           THEN [cleared EXCEPT !.reqState = "threw", !.pc = "failed", !.error = e]
         ELSE IF ~f.stream
           THEN [cleared EXCEPT !.reqState = "returned", !.pc = "returned"]
         ELSE IF ~r.hasBody
           THEN [cleared EXCEPT !.reqState = "returned", !.pc = "failed",
                                !.error = BareError("Error", "No response body")]
         ELSE [cleared EXCEPT !.reqState = "returned", !.pc = "read",
                              !.reader = "locked", !.loc = InitialLocals]]

\* fetch rejects: the catch block clears the timer and classifies.
FlightFetchRejects(i) ==
  LET f == flights[i] IN
  /\ f.pc = "fetch"
  /\ flights' = [flights EXCEPT ![i] =
       [f EXCEPT !.timer = ClearTimeout(@),
                 !.reqState = "threw",
                 !.pc = "failed",
                 !.error = RequestCatch(
                    IF f.aborted
                      THEN BareError("AbortError", "This operation was aborted")
                      ELSE BareError("TypeError", "fetch failed"))]]

\* The timer callback of request i: () => controller.abort(), on the
\* controller of that request.
FlightTimerFires(i) ==
  /\ flights[i].timer = "armed"
  /\ flights' = [flights EXCEPT ![i] = [@ EXCEPT !.timer = "fired", !.aborted = TRUE]]

\* One pass of the while loop of call i.
FlightReadChunk(i) ==
  LET f == flights[i] IN
  /\ f.pc = "read"
  /\ ~f.aborted
  /\ \E k \in 1..(Len(f.wire) - f.pos) :
       LET st == ProcessChunk(Locals(flights, i),
                              SubSeq(f.wire, f.pos + 1, f.pos + k), f.onEvent) IN
       flights' = [flights EXCEPT ![i] =
         IF st.thrown # NoError
           THEN [f EXCEPT !.pos = f.pos + k, !.loc = st,
                          !.reader = Finally(@), !.pc = "failed",
                          !.error = st.thrown]
           ELSE [f EXCEPT !.pos = f.pos + k, !.loc = st]]

\* read() of call i resolves with done.
FlightReadDone(i) ==
  LET f == flights[i] IN
  /\ f.pc = "read"
  /\ ~f.aborted
  /\ f.pos = Len(f.wire)
  /\ flights' = [flights EXCEPT ![i] =
       [f EXCEPT !.reader = Finally(@), !.pc = "returned",
                 !.result = Result(Locals(flights, i).finalContent,
                                   Locals(flights, i).runDetails,
                                   Locals(flights, i).events)]]

\* read() of call i rejects.
FlightReadFails(i) ==
  LET f == flights[i] IN
  /\ f.pc = "read"
  /\ flights' = [flights EXCEPT ![i] =
       [f EXCEPT !.reader = Finally(@), !.pc = "failed",
                 !.error = IF f.aborted
                             THEN BareError("AbortError", "This operation was aborted")
                             ELSE BareError("TypeError", "terminated")]]

InitPair ==
  /\ flights \in [FlightIds -> UNION {FlightChoices(i) : i \in FlightIds}]
  /\ \A i \in FlightIds : flights[i] \in FlightChoices(i)
  /\ NoConstruction
  /\ FreshClient
  /\ StreamIdle

NextPair ==
  \/ \E i \in FlightIds : FlightStart(i) /\ UNCHANGED <<streamVars, client, ctorVars>>
  \/ \E i \in FlightIds : FlightFetchResolves(i) /\ UNCHANGED <<streamVars, client, ctorVars>>
  \/ \E i \in FlightIds : FlightFetchRejects(i) /\ UNCHANGED <<streamVars, client, ctorVars>>
  \/ \E i \in FlightIds : FlightTimerFires(i) /\ UNCHANGED <<streamVars, client, ctorVars>>
  \/ \E i \in FlightIds : FlightReadChunk(i) /\ UNCHANGED <<streamVars, client, ctorVars>>
  \/ \E i \in FlightIds : FlightReadDone(i) /\ UNCHANGED <<streamVars, client, ctorVars>>
  \/ \E i \in FlightIds : FlightReadFails(i) /\ UNCHANGED <<streamVars, client, ctorVars>>

SpecPair == InitPair /\ [][NextPair]_vars

\* The locals of call i had it received the bytes it has received so far
\* as the only call, in one chunk.
Alone(i) ==
  ProcessChunk(InitialLocals, SubSeq(flights[i].wire, 1, flights[i].pos),
               flights[i].onEvent)

\* The events of the body of request i.
EventsOfFlight(i) ==
  LET alone == ProcessChunk(InitialLocals, Encode(FlightBody(i)), Undefined) IN
  {alone.events[k] : k \in 1..Len(alone.events)}

\* C21: with several sendMessage calls in flight, whatever the order in
\* which their chunks arrive: the event log, content, run and observer
\* calls of each call are those of the same call made alone on the bytes
\* it has received; what it returns is made of them; and no event that
\* only the body of another call carries is in its log or in its observer
\* calls.
C21_Independent ==
  \A i \in FlightIds :
    LET f == flights[i] IN
    (f.stream /\ f.reader # "none") =>
      /\ f.loc.events = Alone(i).events
      /\ f.loc.trace = Alone(i).trace
      /\ f.loc.finalContent = Alone(i).finalContent
      /\ f.loc.runDetails = Alone(i).runDetails
      /\ f.pc = "returned" =>
           f.result = Result(Alone(i).finalContent, Alone(i).runDetails,
                             Alone(i).events)
      /\ \A j \in FlightIds \ {i} :
           LET foreign == EventsOfFlight(j) \ EventsOfFlight(i) IN
           /\ \A k \in 1..Len(f.loc.events) : f.loc.events[k] \notin foreign
           /\ \A k \in 1..Len(ObserverCalls(f.loc.trace)) :
                ObserverCalls(f.loc.trace)[k] \notin foreign

\* Both calls are reading, each has decoded its first event and not yet
\* its second, and both observers were called.
C21_Witness ==
  /\ \A i \in FlightIds :
       /\ flights[i].stream /\ flights[i].pc = "read"
       /\ Len(flights[i].loc.events) = 1
       /\ Len(ObserverCalls(flights[i].loc.trace)) = 1
  /\ flights[1].loc.finalContent = "A"
  /\ flights[2].loc.finalContent = EAcute

\* C29: a request that has returned or thrown has no armed timer, and no
\* later step changes its timer or its signal; a signal is aborted only by
\* the timer of its own request, while that request is pending, and that
\* step changes nothing of another request.
C29_TimerCleared ==
  [][\A i \in FlightIds :
       LET old == flights[i]
           new == flights'[i]
       IN
       /\ old.reqState \in {"returned", "threw"} =>
            /\ old.timer \in {"cleared", "fired"}
            /\ new.timer = old.timer
            /\ new.aborted = old.aborted
       /\ new.reqState \in {"returned", "threw"} => new.timer # "armed"
       /\ new.aborted # old.aborted =>
            /\ old.timer = "armed" /\ new.timer = "fired"
            /\ old.reqState = "pending"
            /\ \A j \in FlightIds \ {i} : flights'[j] = flights[j]
    ]_vars

\* A request timed out and threw while the streamed request next to it
\* had returned and goes on reading, its signal not aborted.
C29_Witness ==
  \E i, j \in FlightIds :
    /\ flights[i].reqState = "threw" /\ flights[i].timer = "fired"
    /\ flights[i].error.code = "TIMEOUT"
    /\ flights[j].reqState = "returned" /\ flights[j].timer = "cleared"
    /\ flights[j].pc = "read" /\ flights[j].pos > 0
    /\ ~flights[j].aborted

====
